---- MODULE Spec2Model ----
(***************************************************************************)
(* Model of tracing-bridge (src/lib.rs): the conversion of a live          *)
(* tracing_core event into the serializable TracingEvent snapshot, the     *)
(* conversions of the level and callsite-kind enumerations, the derived    *)
(* equality of the snapshot types and their derived serde encoding.        *)
(*                                                                         *)
(* Representation                                                          *)
(*   Option<T>           <<>> for None, <<v>> for Some(v)                  *)
(*   String              a TLA+ string                                     *)
(*   file text, PathBuf  a sequence of one-character strings, so that the  *)
(*                       path can be split into its components             *)
(*   HashMap<K, V>       the sequence of its entries [key, value] with     *)
(*                       pairwise distinct keys (one internal layout);     *)
(*                       equality and lookup never depend on the order     *)
(*   tracing_core::Level one of "TRACE" "DEBUG" "INFO" "WARN" "ERROR"      *)
(*   metadata::Kind      the set of bits of the native kind                *)
(***************************************************************************)
EXTENDS Integers, Sequences, FiniteSets, TLC

\* Bounds of the model.
MaxEvents == 2      \* events converted in one run
MaxFields == 2      \* visitor callbacks made for one event

None == <<>>
Some(v) == <<v>>

(***************************************************************************)
(* The instrumentation facility: the values the program is handed.         *)
(***************************************************************************)

\* The value types a field can carry; every one of them reaches the
\* visitor through record_debug.
StrValue(s) == [type |-> "str", s |-> s, n |-> 0]
U64Value(n) == [type |-> "u64", s |-> "", n |-> n]

\* The (field name, value) pairs the facility can hand to the visitor.
FieldPairs ==
    { [name |-> "path",   value |-> StrValue("/users")],
      [name |-> "method", value |-> StrValue("GET")],
      [name |-> "method", value |-> U64Value(1)] }

\* What Event::record hands to the visitor for one event: up to MaxFields
\* pairs in any order, a name possibly more than once with different values.
FieldSeqs ==
    { v \in UNION { [1..n -> FieldPairs] : n \in 0..MaxFields } :
        \A i, j \in DOMAIN v : v[i] = v[j] => i = j }

\* The bits of tracing_core::metadata::Kind.  EVENT and SPAN are the two
\* callsite kinds, HINT marks a callsite that is neither; the facility
\* builds a kind from one of the three and may add the hint bit.
NativeKinds ==
    { {"EVENT_BIT"}, {"SPAN_BIT"}, {"HINT_BIT"},
      {"EVENT_BIT", "HINT_BIT"}, {"SPAN_BIT", "HINT_BIT"} }

NativeLevels == {"TRACE", "DEBUG", "INFO", "WARN", "ERROR"}

FileAB      == <<"a", "/", "b">>
FileASlashB == <<"a", "/", "/", "b">>
FileADotB   == <<"a", "/", ".", "/", "b">>
FileB       == <<"b">>
FileTexts   == {FileAB, FileASlashB, FileADotB, FileB}

BaseMetadata ==
    [ name        |-> "req_start",
      target      |-> "svc::http",
      level       |-> "INFO",
      module_path |-> Some("svc::http::handler"),
      file        |-> Some(FileAB),
      line        |-> Some(42),
      kind        |-> {"EVENT_BIT"} ]

AllMetadata ==
    [ name        : {"req_start", "req_end"},
      target      : {"svc::http", "svc::db"},
      level       : NativeLevels,
      module_path : {None, Some("svc::http::handler")},
      file        : {None} \cup { Some(f) : f \in FileTexts },
      line        : {None, Some(0), Some(42)},
      kind        : NativeKinds ]

MetadataAttrs == {"name", "target", "level", "module_path", "file", "line", "kind"}

\* A metadata handle without any location (module_path, file, line).
NoLocation ==
    [BaseMetadata EXCEPT !.module_path = None, !.file = None, !.line = None]

\* The metadata handles of the model: the base handle, every handle that
\* differs from it in one attribute, and the handle without a location.
Handles ==
    { m \in AllMetadata :
        Cardinality({ a \in MetadataAttrs : m[a] # BaseMetadata[a] }) <= 1 }
    \cup {NoLocation}

\* The events of the model: the base metadata with any fields, any handle
\* with no field, and a handle that is neither event nor span with one field.
Events ==
    { [metadata |-> BaseMetadata, values |-> v] : v \in FieldSeqs }
    \cup { [metadata |-> m, values |-> <<>>] : m \in Handles }
    \cup { [metadata |-> m, values |-> <<[name |-> "method", value |-> StrValue("GET")]>>] :
             m \in { h \in Handles : h.kind \cap {"EVENT_BIT", "SPAN_BIT"} = {} } }

\* tracing_core::Metadata::is_event, is_span
is_event(metadata) == "EVENT_BIT" \in metadata.kind
is_span(metadata)  == "SPAN_BIT" \in metadata.kind

VARIABLES
    pc,         \* where TracingEvent::from stands: "idle", "record", "metadata", "panicked"
    event,      \* the event being converted: None or Some(event)
    idx,        \* number of values Event::record has handed to the visitor
    visitor,    \* TracingMetadataFields.fields of the visitor of fields_from_event
    fields,     \* the local `fields` of TracingEvent::from
    snapshots,  \* the values returned so far, each with the event it came from
    out         \* what the caller last made of the latest snapshot

vars == <<pc, event, idx, visitor, fields, snapshots, out>>

(***************************************************************************)
(* HashMap<String, String>                                                 *)
(***************************************************************************)

HashMap_default == <<>>

HashMap_keys(m) == { m[i].key : i \in DOMAIN m }

HashMap_contains_key(m, k) == \E i \in DOMAIN m : m[i].key = k

HashMap_position(m, k) == CHOOSE i \in DOMAIN m : m[i].key = k

HashMap_get(m, k) ==
    IF HashMap_contains_key(m, k) THEN Some(m[HashMap_position(m, k)].value) ELSE None

HashMap_insert(m, k, v) ==
    IF HashMap_contains_key(m, k)
    THEN [m EXCEPT ![HashMap_position(m, k)].value = v]
    ELSE Append(m, [key |-> k, value |-> v])

\* PartialEq of HashMap: same length, and every entry of a is found in b.
HashMap_eq(a, b) ==
    /\ Len(a) = Len(b)
    /\ \A i \in DOMAIN a : HashMap_get(b, a[i].key) = Some(a[i].value)

(***************************************************************************)
(* PathBuf                                                                 *)
(***************************************************************************)

\* PathBuf::from(&str): the path keeps the text as it is.
PathBuf_from(text) == [inner |-> text]

\* The text of the path cut at every separator.
RECURSIVE Pieces(_, _, _)
Pieces(p, i, cur) ==
    IF i > Len(p) THEN <<cur>>
    ELSE IF p[i] = "/" THEN <<cur>> \o Pieces(p, i + 1, <<>>)
    ELSE Pieces(p, i + 1, Append(cur, p[i]))

has_root(p) == Len(p) > 0 /\ p[1] = "/"

include_cur_dir(p) ==
    /\ ~has_root(p)
    /\ Len(p) > 0
    /\ p[1] = "."
    /\ (Len(p) = 1 \/ p[2] = "/")

IsNormal(piece) == piece # <<>> /\ piece # <<".">>

\* Path::components: the root, a leading ".", then the non-empty pieces
\* other than ".".
Components(p) ==
    (IF has_root(p) THEN << <<"/">> >> ELSE <<>>)
    \o (IF include_cur_dir(p) THEN << <<".">> >> ELSE <<>>)
    \o SelectSeq(Pieces(p, 1, <<>>), IsNormal)

\* Mutant: paths compared by their text.
PathBuf_eq_text(a, b) == a.inner = b.inner

\* PartialEq of PathBuf compares the components of the two paths.
PathBuf_eq(a, b) == Components(a.inner) = Components(b.inner)

Option_PathBuf_eq(a, b) ==
    /\ Len(a) = Len(b)
    /\ (Len(a) = 1 => PathBuf_eq(a[1], b[1]))

(***************************************************************************)
(* Field extraction (lib.rs 11-28)                                         *)
(***************************************************************************)

\* format!("{}", value): the text without the quotes Debug puts around a str.
DisplayFmt(value) ==
    IF value.type = "str" THEN value.s ELSE ToString(value.n)

\* format!("{:?}", value)
DebugFmt(value) ==
    IF value.type = "str" THEN "\"" \o value.s \o "\"" ELSE ToString(value.n)

\* Mutant: the value is formatted with Display.
record_debug_display(self, name, value) ==
    HashMap_insert(self, name, DisplayFmt(value))

\* Mutant: an entry already present is kept (entry().or_insert()).
record_debug_keep_first(self, name, value) ==
    IF HashMap_contains_key(self, name) THEN self
    ELSE HashMap_insert(self, name, DebugFmt(value))

\* Visit::record_debug for TracingMetadataFields
record_debug(self, name, value) ==
    HashMap_insert(self, name, DebugFmt(value))

\* Mutant: the accumulator of the previous conversion is used again.
TracingMetadataFields_reused == visitor

\* TracingMetadataFields::default()
TracingMetadataFields_default == HashMap_default

(***************************************************************************)
(* Enumerations (lib.rs 91-152)                                            *)
(***************************************************************************)

TracingLevels == {"Trace", "Debug", "Info", "Warn", "Error"}
TracingCallsiteKinds == {"Event", "Span"}

\* Mutant: WARN and ERROR both map to Error.
TracingLevel_from_merged(level) ==
    CASE level = "TRACE" -> "Trace"
      [] level = "DEBUG" -> "Debug"
      [] level = "INFO"  -> "Info"
      [] level = "WARN"  -> "Error"
      [] level = "ERROR" -> "Error"

\* impl From<&tracing_core::Level> for TracingLevel
TracingLevel_from(level) ==
    CASE level = "TRACE" -> "Trace"
      [] level = "DEBUG" -> "Debug"
      [] level = "INFO"  -> "Info"
      [] level = "WARN"  -> "Warn"
      [] level = "ERROR" -> "Error"

\* impl Into<tracing_core::Level> for &TracingLevel
TracingLevel_into(self) ==
    CASE self = "Trace" -> "TRACE"
      [] self = "Debug" -> "DEBUG"
      [] self = "Info"  -> "INFO"
      [] self = "Warn"  -> "WARN"
      [] self = "Error" -> "ERROR"

\* Mutant: both kinds map to the native event kind.
TracingCallsiteKind_into_event(self) == {"EVENT_BIT"}

\* impl Into<tracing_core::metadata::Kind> for &TracingCallsiteKind
TracingCallsiteKind_into(self) ==
    CASE self = "Event" -> {"EVENT_BIT"}
      [] self = "Span"  -> {"SPAN_BIT"}

(***************************************************************************)
(* Metadata conversion (lib.rs 69-89)                                      *)
(***************************************************************************)

\* Mutant: a callsite that is neither event nor span is taken for a span.
TracingMetadata_kind_default_span(metadata) ==
    IF is_event(metadata) THEN "Event" ELSE "Span"

\* The kind of TracingMetadata::from: "panic" stands for the panic! branch.
TracingMetadata_kind(metadata) ==
    IF is_event(metadata) THEN "Event"
    ELSE IF is_span(metadata) THEN "Span"
    ELSE "panic"

\* String::from(&str): the text is copied as it is.
String_from(text) == text

\* Mutant: an absent module path becomes the empty string and an absent
\* line becomes zero (unwrap_or_default).
TracingMetadata_from_defaults(metadata) ==
    IF TracingMetadata_kind(metadata) = "panic" THEN <<"panic", metadata>>
    ELSE <<"ok",
           [ name        |-> String_from(metadata.name),
             target      |-> String_from(metadata.target),
             level       |-> TracingLevel_from(metadata.level),
             module_path |-> IF metadata.module_path = None THEN Some("")
                             ELSE Some(String_from(metadata.module_path[1])),
             file        |-> IF metadata.file = None THEN None
                             ELSE Some(PathBuf_from(metadata.file[1])),
             line        |-> IF metadata.line = None THEN Some(0) ELSE metadata.line,
             kind        |-> TracingMetadata_kind(metadata) ]>>

\* Mutant: the line is unwrapped, so a handle without a line panics.
TracingMetadata_from_unwrap(metadata) ==
    IF TracingMetadata_kind(metadata) = "panic" \/ metadata.line = None
    THEN <<"panic", metadata>>
    ELSE <<"ok",
           [ name        |-> String_from(metadata.name),
             target      |-> String_from(metadata.target),
             level       |-> TracingLevel_from(metadata.level),
             module_path |-> IF metadata.module_path = None THEN None
                             ELSE Some(String_from(metadata.module_path[1])),
             file        |-> IF metadata.file = None THEN None
                             ELSE Some(PathBuf_from(metadata.file[1])),
             line        |-> metadata.line,
             kind        |-> TracingMetadata_kind(metadata) ]>>

\* impl From<&tracing_core::Metadata<'_>> for TracingMetadata:
\* <<"panic", metadata>> when the kind is neither, else <<"ok", snapshot>>.
TracingMetadata_from(metadata) ==
    IF TracingMetadata_kind(metadata) = "panic" THEN <<"panic", metadata>>
    ELSE <<"ok",
           [ name        |-> String_from(metadata.name),
             target      |-> String_from(metadata.target),
             level       |-> TracingLevel_from(metadata.level),
             module_path |-> IF metadata.module_path = None THEN None
                             ELSE Some(String_from(metadata.module_path[1])),
             file        |-> IF metadata.file = None THEN None
                             ELSE Some(PathBuf_from(metadata.file[1])),
             line        |-> metadata.line,
             kind        |-> TracingMetadata_kind(metadata) ]>>

(***************************************************************************)
(* Derived equality (lib.rs 5, 41)                                         *)
(***************************************************************************)

\* #[derive(PartialEq)] of TracingMetadata
TracingMetadata_eq(a, b) ==
    /\ a.name = b.name
    /\ a.target = b.target
    /\ a.level = b.level
    /\ a.module_path = b.module_path
    /\ Option_PathBuf_eq(a.file, b.file)
    /\ a.line = b.line
    /\ a.kind = b.kind

\* #[derive(PartialEq)] of TracingEvent
TracingEvent_eq(a, b) ==
    /\ TracingMetadata_eq(a.metadata, b.metadata)
    /\ HashMap_eq(a.fields, b.fields)

(***************************************************************************)
(* Derived serde encoding (lib.rs 5, 41, 91, 139).  A struct is written as *)
(* its name and the list of its (field name, value) pairs in declaration   *)
(* order, a unit variant as the enum and variant names, an Option as none  *)
(* or some, a PathBuf as its text, a map as the list of its entries.       *)
(***************************************************************************)

Option_serialize(o) == IF o = None THEN <<"none">> ELSE <<"some", o[1]>>

Option_deserialize(w) == IF w[1] = "none" THEN None ELSE Some(w[2])

TracingLevel_serialize(self) == [enum |-> "TracingLevel", variant |-> self]

TracingLevel_deserialize(w) ==
    CHOOSE l \in TracingLevels : w.enum = "TracingLevel" /\ w.variant = l

TracingCallsiteKind_serialize(self) == [enum |-> "TracingCallsiteKind", variant |-> self]

TracingCallsiteKind_deserialize(w) ==
    CHOOSE k \in TracingCallsiteKinds : w.enum = "TracingCallsiteKind" /\ w.variant = k

\* Serialize for PathBuf: the text of the path.
PathBuf_serialize(self) == self.inner

PathBuf_deserialize(w) == PathBuf_from(w)

\* Mutant: the line is skipped (#[serde(skip)]), and read back as absent.
TracingMetadata_serialize_skip_line(self) ==
    [ struct |-> "TracingMetadata",
      fields |-> << <<"name", self.name>>,
                    <<"target", self.target>>,
                    <<"level", TracingLevel_serialize(self.level)>>,
                    <<"module_path", Option_serialize(self.module_path)>>,
                    <<"file", IF self.file = None THEN <<"none">>
                              ELSE <<"some", PathBuf_serialize(self.file[1])>> >>,
                    <<"line", <<"none">> >>,
                    <<"kind", TracingCallsiteKind_serialize(self.kind)>> >> ]

\* #[derive(Serialize)] of TracingMetadata
TracingMetadata_serialize(self) ==
    [ struct |-> "TracingMetadata",
      fields |-> << <<"name", self.name>>,
                    <<"target", self.target>>,
                    <<"level", TracingLevel_serialize(self.level)>>,
                    <<"module_path", Option_serialize(self.module_path)>>,
                    <<"file", IF self.file = None THEN <<"none">>
                              ELSE <<"some", PathBuf_serialize(self.file[1])>> >>,
                    <<"line", Option_serialize(self.line)>>,
                    <<"kind", TracingCallsiteKind_serialize(self.kind)>> >> ]

\* The value of the named field of a serialized struct.
StructField(w, name) ==
    w.fields[CHOOSE i \in DOMAIN w.fields : w.fields[i][1] = name][2]

StructFieldNames(w) == [i \in DOMAIN w.fields |-> w.fields[i][1]]

\* #[derive(Deserialize)] of TracingMetadata
TracingMetadata_deserialize(w) ==
    [ name        |-> StructField(w, "name"),
      target      |-> StructField(w, "target"),
      level       |-> TracingLevel_deserialize(StructField(w, "level")),
      module_path |-> Option_deserialize(StructField(w, "module_path")),
      file        |-> IF StructField(w, "file")[1] = "none" THEN None
                      ELSE Some(PathBuf_deserialize(StructField(w, "file")[2])),
      line        |-> Option_deserialize(StructField(w, "line")),
      kind        |-> TracingCallsiteKind_deserialize(StructField(w, "kind")) ]

\* Serialize for HashMap: the entries in the order the map iterates them.
HashMap_serialize(self, order) ==
    [i \in DOMAIN self |-> <<self[order[i]].key, self[order[i]].value>>]

\* Deserialize for HashMap: the entries inserted one after the other.
RECURSIVE HashMap_deserialize(_)
HashMap_deserialize(w) ==
    IF w = <<>> THEN HashMap_default
    ELSE HashMap_insert(HashMap_deserialize(SubSeq(w, 1, Len(w) - 1)),
                        w[Len(w)][1], w[Len(w)][2])

\* The orders in which a map of n entries can be iterated.
IterationOrders(n) ==
    { o \in [1..n -> 1..n] : \A i, j \in 1..n : o[i] = o[j] => i = j }

\* #[derive(Serialize)] of TracingEvent
TracingEvent_serialize(self, order) ==
    [ struct |-> "TracingEvent",
      fields |-> << <<"metadata", TracingMetadata_serialize(self.metadata)>>,
                    <<"fields", HashMap_serialize(self.fields, order)>> >> ]

\* #[derive(Deserialize)] of TracingEvent
TracingEvent_deserialize(w) ==
    [ metadata |-> TracingMetadata_deserialize(StructField(w, "metadata")),
      fields   |-> HashMap_deserialize(StructField(w, "fields")) ]

(***************************************************************************)
(* The state machine                                                       *)
(***************************************************************************)

Init ==
    /\ pc = "idle"
    /\ event = None
    /\ idx = 0
    /\ visitor = HashMap_default
    /\ fields = HashMap_default
    /\ snapshots = <<>>
    /\ out = None

\* TracingEvent::from is entered and fields_from_event makes its visitor
\* (lib.rs 31-32, 18).
Fire(e) ==
    /\ pc = "idle"
    /\ out = None
    /\ Len(snapshots) < MaxEvents
    /\ pc' = "record"
    /\ event' = Some(e)
    /\ idx' = 0
    /\ visitor' = TracingMetadataFields_default
    /\ UNCHANGED <<fields, snapshots, out>>

\* Event::record hands the next value to the visitor (lib.rs 19, 25-27).
Record ==
    /\ pc = "record"
    /\ idx < Len(event[1].values)
    /\ visitor' = record_debug(visitor, event[1].values[idx + 1].name,
                               event[1].values[idx + 1].value)
    /\ idx' = idx + 1
    /\ UNCHANGED <<pc, event, fields, snapshots, out>>

\* fields_from_event returns the visitor's map (lib.rs 20, 32).
FieldsReturn ==
    /\ pc = "record"
    /\ idx = Len(event[1].values)
    /\ fields' = visitor
    /\ pc' = "metadata"
    /\ UNCHANGED <<event, idx, visitor, snapshots, out>>

\* The metadata converts and the snapshot is returned (lib.rs 34-37).
Return ==
    /\ pc = "metadata"
    /\ TracingMetadata_from(event[1].metadata)[1] = "ok"
    /\ snapshots' = Append(snapshots,
          [ source   |-> event[1],
            snapshot |-> [ metadata |-> TracingMetadata_from(event[1].metadata)[2],
                           fields   |-> fields ] ])
    /\ pc' = "idle"
    /\ event' = None
    /\ idx' = 0
    /\ UNCHANGED <<visitor, fields, out>>

\* The metadata is neither event nor span: panic! (lib.rs 76).
Panic ==
    /\ pc = "metadata"
    /\ TracingMetadata_from(event[1].metadata)[1] = "panic"
    /\ pc' = "panicked"
    /\ UNCHANGED <<event, idx, visitor, fields, snapshots, out>>

Latest == snapshots[Len(snapshots)].snapshot

HasLatest == pc = "idle" /\ Len(snapshots) > 0

\* The caller converts the level of the latest snapshot back (lib.rs 127-137).
IntoLevel ==
    /\ HasLatest
    /\ out = None
    /\ out' = <<"level", TracingLevel_into(Latest.metadata.level)>>
    /\ UNCHANGED <<pc, event, idx, visitor, fields, snapshots>>

\* The caller converts the kind of the latest snapshot back (lib.rs 145-152).
IntoKind ==
    /\ HasLatest
    /\ out = None
    /\ out' = <<"kind", TracingCallsiteKind_into(Latest.metadata.kind)>>
    /\ UNCHANGED <<pc, event, idx, visitor, fields, snapshots>>

\* The caller serializes the latest snapshot.
Serialize ==
    /\ HasLatest
    /\ out = None
    /\ \E order \in IterationOrders(Len(Latest.fields)) :
          out' = <<"wire", TracingEvent_serialize(Latest, order)>>
    /\ UNCHANGED <<pc, event, idx, visitor, fields, snapshots>>

\* The caller deserializes what it serialized.
Deserialize ==
    /\ HasLatest
    /\ out # None
    /\ out[1] = "wire"
    /\ out' = <<"decoded", out[2], TracingEvent_deserialize(out[2])>>
    /\ UNCHANGED <<pc, event, idx, visitor, fields, snapshots>>

\* The caller compares an earlier snapshot (or the latest) with the latest.
Compare(j) ==
    /\ HasLatest
    /\ out = None
    /\ out' = <<"eq", j, TracingEvent_eq(snapshots[j].snapshot, Latest)>>
    /\ UNCHANGED <<pc, event, idx, visitor, fields, snapshots>>

\* The caller drops what it made of the latest snapshot.
Drop ==
    /\ out # None
    /\ out' = None
    /\ UNCHANGED <<pc, event, idx, visitor, fields, snapshots>>

Next ==
    \/ \E e \in Events : Fire(e)
    \/ Record
    \/ FieldsReturn
    \/ Return
    \/ Panic
    \/ IntoLevel
    \/ IntoKind
    \/ Serialize
    \/ Deserialize
    \/ \E j \in 1..Len(snapshots) : Compare(j)
    \/ Drop

Spec == Init /\ [][Next]_vars

(***************************************************************************)
(* Properties                                                              *)
(***************************************************************************)

Returned == { snapshots[i] : i \in DOMAIN snapshots }

OutIs(tag) == out # None /\ out[1] = tag

Neither(metadata) == ~is_event(metadata) /\ ~is_span(metadata)

Names(values) == { values[i].name : i \in DOMAIN values }

DistinctNames(values) ==
    \A i, j \in DOMAIN values : values[i].name = values[j].name => i = j

\* The value recorded last under the name.
LastValue(values, name) ==
    values[CHOOSE i \in DOMAIN values :
              /\ values[i].name = name
              /\ \A j \in DOMAIN values : values[j].name = name => j <= i].value

\* The debug text Rust prints for the values of the model.
ExpectedText(value) ==
    CASE value = StrValue("/users") -> "\"/users\""
      [] value = StrValue("GET")    -> "\"GET\""
      [] value = U64Value(1)        -> "1"

\* The snapshot level that stands for each native level.
ExpectedLevel(level) ==
    CASE level = "TRACE" -> "Trace"
      [] level = "DEBUG" -> "Debug"
      [] level = "INFO"  -> "Info"
      [] level = "WARN"  -> "Warn"
      [] level = "ERROR" -> "Error"

\* C1: native level -> TracingLevel -> native level gives the level back,
\* and TracingLevel -> native level -> TracingLevel gives the variant back,
\* for the level of every handle converted and of every snapshot returned.
C1_LevelRoundTrip ==
    /\ \A r \in Returned :
          /\ r.snapshot.metadata.level \in TracingLevels
          /\ TracingLevel_into(r.snapshot.metadata.level) = r.source.metadata.level
    /\ OutIs("level") =>
          /\ out[2] \in NativeLevels
          /\ TracingLevel_from(out[2]) = Latest.metadata.level

C1_Witness ==
    /\ OutIs("level")
    /\ out[2] = "WARN"
    /\ Latest.metadata.level = "Warn"
    /\ snapshots[Len(snapshots)].source.metadata.level = "WARN"

\* C2: a handle that reports is_event gives kind Event, one that reports
\* is_span gives kind Span, and one that reports neither makes the
\* conversion panic instead of returning.
C2_KindResolution ==
    /\ \A r \in Returned :
          /\ is_event(r.source.metadata) => r.snapshot.metadata.kind = "Event"
          /\ is_span(r.source.metadata) => r.snapshot.metadata.kind = "Span"
          /\ ~Neither(r.source.metadata)
    /\ pc = "metadata" /\ Neither(event[1].metadata) => ENABLED Panic /\ ~ENABLED Return
    /\ pc = "panicked" => Neither(event[1].metadata)

C2_Witness ==
    /\ pc = "panicked"
    /\ \E r \in Returned : is_span(r.source.metadata) /\ r.snapshot.metadata.kind = "Span"

\* C3: when the visitor is called for N fields with pairwise distinct
\* names, the mapping has exactly N entries, its keys are the field names,
\* every key maps to the debug text of its value, and no key occurs twice;
\* for N = 0 the mapping is empty.
C3_FieldExtractionTotal ==
    \A r \in Returned :
        DistinctNames(r.source.values) =>
            /\ Len(r.snapshot.fields) = Len(r.source.values)
            /\ HashMap_keys(r.snapshot.fields) = Names(r.source.values)
            /\ Cardinality(HashMap_keys(r.snapshot.fields)) = Len(r.snapshot.fields)
            /\ \A i \in DOMAIN r.source.values :
                  HashMap_get(r.snapshot.fields, r.source.values[i].name)
                      = Some(ExpectedText(r.source.values[i].value))
            /\ (r.source.values = <<>> => r.snapshot.fields = HashMap_default)

C3_Witness ==
    \E r \in Returned :
        /\ Len(r.source.values) = 2
        /\ DistinctNames(r.source.values)
        /\ Len(r.snapshot.fields) = 2
        /\ HashMap_get(r.snapshot.fields, "method") = Some("\"GET\"")
        /\ HashMap_get(r.snapshot.fields, "path") = Some("\"/users\"")

C4_State ==
    /\ pc = "panicked" => Neither(event[1].metadata)
    /\ \A r \in Returned :
          /\ ~Neither(r.source.metadata)
          /\ DOMAIN r.snapshot = {"metadata", "fields"}
          /\ DOMAIN r.snapshot.metadata = MetadataAttrs
    /\ pc = "record" => ENABLED Record \/ ENABLED FieldsReturn
    /\ pc = "metadata" =>
          /\ Neither(event[1].metadata) => ENABLED Panic /\ ~ENABLED Return
          /\ ~Neither(event[1].metadata) => ENABLED Return /\ ~ENABLED Panic

\* C4: the conversion of an event fails exactly when its metadata is
\* neither event nor span; then it panics and returns no snapshot; in every
\* other case it returns a complete snapshot, and field extraction never
\* fails.
C4_SingleFailureMode ==
    /\ []C4_State
    /\ [][pc' = "panicked" => snapshots' = snapshots]_vars
    /\ [][pc = "metadata" /\ ~Neither(event[1].metadata) =>
              /\ pc' = "idle"
              /\ Len(snapshots') = Len(snapshots) + 1
              /\ snapshots'[Len(snapshots')].source = event[1]]_vars

C4_Witness ==
    /\ pc = "panicked"
    /\ Len(event[1].values) = 1
    /\ fields # HashMap_default
    /\ Len(snapshots) = 1

\* C5: the snapshot has the name and target of the handle, the image of
\* its level, and module_path, file and line present exactly when the
\* handle has them, with the same value; an absent one stays absent.
C5_MetadataFidelity ==
    \A r \in Returned :
        LET h == r.source.metadata
            m == r.snapshot.metadata
        IN  /\ m.name = h.name
            /\ m.target = h.target
            /\ m.level = ExpectedLevel(h.level)
            /\ (m.module_path = None) = (h.module_path = None)
            /\ h.module_path # None => m.module_path = Some(h.module_path[1])
            /\ (m.file = None) = (h.file = None)
            /\ h.file # None => Len(m.file) = 1 /\ m.file[1].inner = h.file[1]
            /\ (m.line = None) = (h.line = None)
            /\ h.line # None => m.line = Some(h.line[1])

C5_Witness ==
    \E r \in Returned :
        /\ r.source.metadata = NoLocation
        /\ r.snapshot.metadata.module_path = None
        /\ r.snapshot.metadata.file = None
        /\ r.snapshot.metadata.line = None

\* The two mappings have the same keys and the same value for every key.
SameFields(a, b) ==
    /\ HashMap_keys(a) = HashMap_keys(b)
    /\ \A k \in HashMap_keys(a) : HashMap_get(a, k) = HashMap_get(b, k)

\* The two events carry the same (name, value) pairs, in any order.
SameContents(e1, e2) ==
    /\ e1.metadata = e2.metadata
    /\ { e1.values[i] : i \in DOMAIN e1.values } = { e2.values[i] : i \in DOMAIN e2.values }
    /\ DistinctNames(e1.values)
    /\ DistinctNames(e2.values)

\* C6 as stated: two snapshots are equal exactly when all seven metadata
\* attributes are the same and the field mappings have the same keys and
\* values.
C6_EqualIffSameAttributes ==
    OutIs("eq") =>
        (out[3] <=> /\ snapshots[out[2]].snapshot.metadata = Latest.metadata
                    /\ SameFields(snapshots[out[2]].snapshot.fields, Latest.fields))

SamePath(a, b) ==
    /\ (a = None) = (b = None)
    /\ a # None => Components(a[1].inner) = Components(b[1].inner)

\* C6 amended: two snapshots are equal exactly when name, target, level,
\* module_path, line and kind are the same, the files are both absent or
\* have the same path components, and the field mappings have the same keys
\* and values, whatever the insertion order; snapshots of events with the
\* same metadata and field contents are equal.
C6_EqualIffSameUpToPath ==
    /\ OutIs("eq") =>
          LET a == snapshots[out[2]].snapshot
              b == Latest
          IN  out[3] <=>
                 /\ \A attr \in MetadataAttrs \ {"file"} : a.metadata[attr] = b.metadata[attr]
                 /\ SamePath(a.metadata.file, b.metadata.file)
                 /\ SameFields(a.fields, b.fields)
    /\ \A r1, r2 \in Returned :
          SameContents(r1.source, r2.source) => TracingEvent_eq(r1.snapshot, r2.snapshot)

C6_Witness ==
    /\ OutIs("eq")
    /\ out[3]
    /\ Len(Latest.fields) = 2
    /\ snapshots[out[2]].snapshot.fields # Latest.fields

\* C7: Event maps to the native event kind and Span to the native span
\* kind, the two images differ, and the native kind made from the kind of a
\* snapshot is an event kind exactly when that kind is Event and a span
\* kind exactly when it is Span.
C7_KindInto ==
    /\ \A r \in Returned : r.snapshot.metadata.kind \in TracingCallsiteKinds
    /\ OutIs("kind") =>
          /\ Latest.metadata.kind = "Event" => out[2] = {"EVENT_BIT"}
          /\ Latest.metadata.kind = "Span" => out[2] = {"SPAN_BIT"}
          /\ is_event([kind |-> out[2]]) <=> Latest.metadata.kind = "Event"
          /\ is_span([kind |-> out[2]]) <=> Latest.metadata.kind = "Span"
          /\ is_event([kind |-> out[2]]) # is_span([kind |-> out[2]])

C7_Witness ==
    /\ OutIs("kind")
    /\ out[2] = {"SPAN_BIT"}
    /\ Latest.metadata.kind = "Span"
    /\ snapshots[Len(snapshots)].source.metadata.kind = {"SPAN_BIT", "HINT_BIT"}

C9_State ==
    /\ pc = "record" /\ idx = 0 => visitor = HashMap_default
    /\ \A r \in Returned :
          \A i \in DOMAIN r.snapshot.fields :
              \E j \in DOMAIN r.source.values :
                  /\ r.source.values[j].name = r.snapshot.fields[i].key
                  /\ ExpectedText(r.source.values[j].value) = r.snapshot.fields[i].value
    /\ \A i, j \in DOMAIN snapshots :
          snapshots[i].source = snapshots[j].source
              => TracingEvent_eq(snapshots[i].snapshot, snapshots[j].snapshot)

\* C9: every conversion starts from an empty accumulator, the mapping of a
\* snapshot holds only entries recorded for its own event, two conversions
\* of the same event give equal snapshots, and a returned snapshot is not
\* changed by what happens later.
C9_VisitorIsolation ==
    /\ []C9_State
    /\ [][\A i \in DOMAIN snapshots :
              i \in DOMAIN snapshots' /\ snapshots'[i] = snapshots[i]]_vars

C9_Witness ==
    /\ Len(snapshots) = 2
    /\ snapshots[1].snapshot.fields # HashMap_default
    /\ snapshots[2].source.values = <<>>
    /\ snapshots[2].snapshot.fields = HashMap_default

\* C10: when record_debug is called several times with one name, the
\* mapping holds one entry for the name, with the debug text of the value
\* recorded last; the size of the mapping is the number of distinct names,
\* at most the number of calls.
C10_DuplicateNames ==
    \A r \in Returned :
        /\ \A name \in Names(r.source.values) :
              /\ Cardinality({ i \in DOMAIN r.snapshot.fields :
                                  r.snapshot.fields[i].key = name }) = 1
              /\ HashMap_get(r.snapshot.fields, name)
                    = Some(ExpectedText(LastValue(r.source.values, name)))
        /\ Len(r.snapshot.fields) = Cardinality(Names(r.source.values))
        /\ Len(r.snapshot.fields) <= Len(r.source.values)

C10_Witness ==
    \E r \in Returned :
        /\ Len(r.source.values) = 2
        /\ r.source.values[1].name = "method"
        /\ r.source.values[2].name = "method"
        /\ r.source.values[2].value = U64Value(1)
        /\ r.snapshot.fields = <<[key |-> "method", value |-> "1"]>>

====
